---- MODULE Spec2Model ----
(***************************************************************************)
(* Model of @gramio/session: the reactive proxy (src/lib/proxy.ts), the    *)
(* session manager (src/lib/session-manager.ts), the eager and lazy derive *)
(* plugins with their flush hooks (src/lib/derive-eager.ts,                *)
(* src/lib/derive-lazy.ts) and the in-memory storage                       *)
(* (src/in-memory-storage.ts).                                             *)
(*                                                                         *)
(* JavaScript objects live in a heap of references.  The in-memory storage *)
(* keeps and returns references, so an object handed to storage.set is the *)
(* very object a later storage.get returns.  Every asynchronous function   *)
(* is cut at its awaits: one action is the code between two suspension     *)
(* points.  Handler logic is the environment: it picks its operations      *)
(* nondeterministically and awaits every promise it starts.                *)
(*                                                                         *)
(* A reference names the unit of work whose code allocated the object and  *)
(* the rank of the object among those: references are only ever compared   *)
(* for identity, so the naming is immaterial.                              *)
(***************************************************************************)
EXTENDS Integers, Sequences, FiniteSets, TLC

VARIABLES
    mode,             \* "eager" | "lazy": which plugin session() installed
    hasInitialData,   \* whether the option getInitialData was given to session()
    heap,             \* raw objects and arrays, by reference
    proxyObj,         \* the Proxy objects: target and the onUpdate they close over
    proxyCache,       \* WeakMap value -> proxy
    targetCache,      \* WeakMap proxy -> value
    managers,         \* closures made by createSessionWithClear: session, dirty
    sessionManagers,  \* WeakMap context -> manager
    storage,          \* the Map of the in-memory storage
    pc,               \* position of each unit of work
    ukey,             \* what getSessionKey(context) returns for the unit of work
    loadRes,          \* eager derive: the value storage.get returned
    loaded,           \* lazy derive: closure variable loaded
    keyPromise,       \* lazy derive: closure variable sessionKeyPromise is set
    accPc,            \* lazy derive: position of each invocation of the getter
    accRes,           \* lazy derive: value held by each invocation of the getter
    clearM,           \* manager whose $clear is running in the unit of work
    clearData,        \* $clear: the baseline its initializer call returned
    ops,              \* number of handler operations the unit of work has made
    hist              \* history of each unit of work (observations only)

vars == <<mode, hasInitialData, heap, proxyObj, proxyCache, targetCache, managers,
          sessionManagers, storage, pc, ukey, loadRes, loaded, keyPromise,
          accPc, accRes, clearM, clearData, ops, hist>>

(***************************************************************************)
(* Bounds                                                                  *)
(***************************************************************************)
MaxUow == 2
MaxOps == 3
MaxAcc == 2
MaxFail == 1

Ctx == 1..MaxUow
Acc == 1..MaxAcc
Keys == {"123", "456"}
Fields == {"counter", "nested", "value", "items", "0", "alias"}
FieldSeq == <<"counter", "nested", "value", "items", "0", "alias">>

(***************************************************************************)
(* JavaScript values                                                       *)
(***************************************************************************)
Prim(n) == [t |-> "prim", c |-> 0, v |-> n]
Undefined == [t |-> "undef", c |-> 0, v |-> 0]
Null == [t |-> "null", c |-> 0, v |-> 0]

\* the values that are no containers: numbers (strings and booleans behave
\* as numbers do), undefined and null
Leaves == {Prim(0), Prim(1), Undefined, Null}

\* a reference not yet in use: "raw" for objects and arrays, "proxy" for
\* Proxy objects, "mgr" for the closures of createSessionWithClear
Fresh(t, c, used) ==
    [t |-> t, c |-> c, v |-> 1 + Cardinality({x \in used : x.c = c})]

\* typeof value === "object" && value !== null
IsObject(value) == value.t \in {"raw", "proxy"}

\* isPlainObject(val) || Array.isArray(val): every heap object is a plain
\* object or an array, and both tests see through a Proxy
IsContainer(val) == val.t \in {"raw", "proxy"}

NoFields == [f \in Fields |-> Undefined]

\* an object or array literal with the given fields; clear is the manager whose
\* $clear closure Object.defineProperty put on the object
NewObject(kind, f) == [kind |-> kind, clear |-> Undefined, f |-> f]

\* the part of the state the synchronous JavaScript code works on, and the
\* unit of work whose code is running
St(c) == [heap |-> heap, proxyObj |-> proxyObj, proxyCache |-> proxyCache,
          targetCache |-> targetCache, managers |-> managers, cur |-> c]

\* new: a fresh object or array literal
Alloc(obj, st) ==
    LET r == Fresh("raw", st.cur, DOMAIN st.heap)
    IN [res |-> r, st |-> [st EXCEPT !.heap = (r :> obj) @@ @]]

SetSt(st) ==
    /\ heap' = st.heap
    /\ proxyObj' = st.proxyObj
    /\ proxyCache' = st.proxyCache
    /\ targetCache' = st.targetCache
    /\ managers' = st.managers

\* getInitialData(context), the configured initializer: every call builds
\* { counter: 0, nested: { value: 0, items: [0] } } from fresh objects
getInitialData(st) ==
    LET items == Alloc(NewObject("arr", [NoFields EXCEPT !["0"] = Prim(0)]), st)
        nested == Alloc(NewObject("obj", [NoFields EXCEPT !["value"] = Prim(0),
                                                          !["items"] = items.res]),
                        items.st)
    IN Alloc(NewObject("obj", [NoFields EXCEPT !["counter"] = Prim(0),
                                               !["nested"] = nested.res]),
             nested.st)

(***************************************************************************)
(* proxy.ts                                                                *)
(***************************************************************************)
\* a createProxy without the test of line 20: it wraps whatever it is given
createProxy_WrapLeaves(value, onUpdate, st) ==
    IF value \in DOMAIN st.proxyCache
    THEN [res |-> st.proxyCache[value], st |-> st]
    ELSE LET proxy == Fresh("proxy", st.cur, DOMAIN st.proxyObj) IN
         [res |-> proxy,
          st |-> [st EXCEPT
                    !.proxyObj = (proxy :> [target |-> value, onUpdate |-> onUpdate]) @@ @,
                    !.proxyCache = (value :> proxy) @@ @,
                    !.targetCache = (proxy :> value) @@ @]]

createProxy(value, onUpdate, st) ==
    IF ~IsObject(value) THEN [res |-> value, st |-> st]
    ELSE IF value \in DOMAIN st.proxyCache
    THEN [res |-> st.proxyCache[value], st |-> st]
    ELSE LET proxy == Fresh("proxy", st.cur, DOMAIN st.proxyObj) IN
         [res |-> proxy,
          st |-> [st EXCEPT
                    !.proxyObj = (proxy :> [target |-> value, onUpdate |-> onUpdate]) @@ @,
                    !.proxyCache = (value :> proxy) @@ @,
                    !.targetCache = (proxy :> value) @@ @]]

getTarget(proxy, st) ==
    IF proxy \in DOMAIN st.targetCache
    THEN st.targetCache[proxy]
    ELSE proxy

\* onUpdate of every proxy is the markDirty of one manager
markDirty(m, st) == [st EXCEPT !.managers[m].dirty = TRUE]

\* the raw object at the bottom of a chain of proxies
RECURSIVE RawOf(_, _)
RawOf(x, st) ==
    IF x.t = "proxy" THEN RawOf(st.proxyObj[x].target, st) ELSE x

\* x[key]: a plain read on a raw object, the get trap on a proxy
RECURSIVE JsGet(_, _, _)
JsGet(x, key, st) ==
    IF x.t = "raw" THEN [res |-> st.heap[x].f[key], st |-> st]
    ELSE LET inner == JsGet(st.proxyObj[x].target, key, st)
             val == inner.res
         IN IF IsContainer(val)
            THEN createProxy(val, st.proxyObj[x].onUpdate, inner.st)
            ELSE [res |-> val, st |-> inner.st]

\* x[key] = newValue: a plain write on a raw object, the set trap on a proxy
RECURSIVE JsSet(_, _, _, _)
JsSet(x, key, newValue, st) ==
    IF x.t = "raw" THEN [st EXCEPT !.heap[x].f[key] = newValue]
    ELSE markDirty(st.proxyObj[x].onUpdate,
                   JsSet(st.proxyObj[x].target, key, newValue, st))

\* a deleteProperty trap that reports the update and deletes nothing
JsDelete_MarkOnly(x, key, st) ==
    IF x.t = "raw" THEN st ELSE markDirty(st.proxyObj[x].onUpdate, st)

\* delete x[key]: the deleteProperty trap on a proxy
RECURSIVE JsDelete(_, _, _)
JsDelete(x, key, st) ==
    IF x.t = "raw" THEN [st EXCEPT !.heap[x].f[key] = Undefined]
    ELSE markDirty(st.proxyObj[x].onUpdate,
                   JsDelete(st.proxyObj[x].target, key, st))

\* the enumerable own keys a for-in loop over x visits
KeysOf(x, st) == {k \in Fields : st.heap[RawOf(x, st)].f[k] # Undefined}

(***************************************************************************)
(* session-manager.ts                                                      *)
(***************************************************************************)
\* the loop of save: dataToStore[key] = target[key] for every key of target
RECURSIVE CopyFields(_, _, _, _)
CopyFields(target, dst, i, st) ==
    IF i > Len(FieldSeq) THEN st
    ELSE IF FieldSeq[i] \in KeysOf(target, st)
    THEN LET g == JsGet(target, FieldSeq[i], st)
         IN CopyFields(target, dst, i + 1,
                       JsSet(dst, FieldSeq[i], g.res, g.st))
    ELSE CopyFields(target, dst, i + 1, st)

\* the loop of $clear: delete target[key] for every key of target
RECURSIVE DeleteFields(_, _, _)
DeleteFields(target, i, st) ==
    IF i > Len(FieldSeq) THEN st
    ELSE IF FieldSeq[i] \in KeysOf(target, st)
    THEN DeleteFields(target, i + 1, JsDelete(target, FieldSeq[i], st))
    ELSE DeleteFields(target, i + 1, st)

\* the loop of $clear: target[key] = newData[key] for every key of newData
RECURSIVE AssignFields(_, _, _, _)
AssignFields(target, newData, i, st) ==
    IF i > Len(FieldSeq) THEN st
    ELSE IF FieldSeq[i] \in KeysOf(newData, st)
    THEN AssignFields(target, newData, i + 1,
                      JsSet(target, FieldSeq[i], st.heap[newData].f[FieldSeq[i]], st))
    ELSE AssignFields(target, newData, i + 1, st)

createSessionWithClear(sessionData, sessionKey, context, st) ==
    LET m == Fresh("mgr", st.cur, DOMAIN st.managers)
        cp == createProxy(sessionData, m, st)
        session == cp.res
        raw == RawOf(session, cp.st)
        \* if (!("$clear" in session)) Object.defineProperty(session, "$clear", ...)
        s1 == IF cp.st.heap[raw].clear = Undefined
              THEN [cp.st EXCEPT !.heap[raw].clear = m]
              ELSE cp.st
    IN [res |-> m,
        st |-> [s1 EXCEPT !.managers =
                  (m :> [session |-> session, dirty |-> FALSE,
                         sessionKey |-> sessionKey, context |-> context]) @@ @]]

\* (getInitialData && (await getInitialData(context))) ?? {}
\* inits: the number of calls of the initializer made
initialOrEmpty(st) ==
    LET d == IF hasInitialData THEN getInitialData(st)
             ELSE Alloc(NewObject("obj", NoFields), st)
    IN [res |-> d.res, st |-> d.st, inits |-> IF hasInitialData THEN 1 ELSE 0]

\* loadSessionData that ignores what storage.get returned
loadSessionData_Fresh(got, st) == initialOrEmpty(st)

\* loadSessionData that calls the initializer before it looks at what
\* storage.get returned
loadSessionData_InitFirst(got, st) ==
    LET d == initialOrEmpty(st)
    IN IF got = Undefined THEN d
       ELSE [res |-> got, st |-> d.st, inits |-> d.inits]

\* loadSessionData after its await of storage.get:
\* got ?? (getInitialData && (await getInitialData(context))) ?? {}
loadSessionData(got, st) ==
    IF got = Undefined THEN initialOrEmpty(st)
    ELSE [res |-> got, st |-> st, inits |-> 0]

\* save without its test of dirty
ShouldSave_Always(m, st) == TRUE

\* save: if (!dirty) return
ShouldSave(m, st) == st.managers[m].dirty

\* a save whose copy carries the $clear closure of the target along
saveData_WithClear(m, st) ==
    LET target == getTarget(st.managers[m].session, st)
        dataToStore == Alloc([kind |-> "obj", clear |-> st.heap[target].clear,
                              f |-> NoFields], st)
    IN [res |-> dataToStore.res,
        st |-> CopyFields(target, dataToStore.res, 1, dataToStore.st)]

\* save up to its await: the copy handed to storage.set
saveData(m, st) ==
    LET target == getTarget(st.managers[m].session, st)
        dataToStore == Alloc(NewObject("obj", NoFields), st)
    IN [res |-> dataToStore.res,
        st |-> CopyFields(target, dataToStore.res, 1, dataToStore.st)]

\* a save that clears the dirty flag although storage.set rejected
saveFailed_ClearsDirty(m, st) == [st EXCEPT !.managers[m].dirty = FALSE]

\* save when its await of storage.set rejects: the assignment dirty = false
\* after the await is not reached
saveFailed(m, st) == st

\* a save that leaves the dirty flag as it is
saveDone_KeepDirty(m, st) == st

\* save after its await of storage.set: dirty = false
saveDone(m, st) == [st EXCEPT !.managers[m].dirty = FALSE]

\* a reset that copies the new data over the target without emptying it
clearInPlace_AssignOnly(m, newData, st) ==
    LET target == getTarget(st.managers[m].session, st)
    IN AssignFields(target, newData, 1, st)

\* $clear after its second await: the reset of the target in place
clearInPlace(m, newData, st) ==
    LET target == getTarget(st.managers[m].session, st)
    IN AssignFields(target, newData, 1, DeleteFields(target, 1, st))

(***************************************************************************)
(* History                                                                 *)
(***************************************************************************)
\* gets, sets, dels: storage calls issued by the unit of work; skeys: the keys
\* they were issued for; keys, inits: calls of the key resolver and of the
\* initializer; mgrs: session managers created; muts: writes and deletes the
\* handler made through wrappers; incs: those that were session.counter++;
\* resets, repls: completed $clear calls and
\* assignments to the session field; last: the latest of these operations;
\* seen: the wrappers handed to the handler; overlap: another unit of work of
\* the same key was in progress at some time during this one; err: the call
\* of the unit of work that rejected ("get", "set", "delete": the storage
\* call; "init", "clearinit": the initializer at load and in $clear;
\* "handler": the handler logic itself)
NoHist == [gets |-> 0, sets |-> 0, dels |-> 0, skeys |-> {}, keys |-> 0,
           inits |-> 0, mgrs |-> 0, muts |-> 0, incs |-> 0, resets |-> 0, repls |-> 0,
           last |-> "none", seen |-> {}, overlap |-> FALSE, err |-> "none"]

Active == {c \in Ctx : pc[c] \notin {"idle", "done", "failed"}}

\* a component that swallows the rejection of a storage call: the unit of
\* work ends as if nothing had happened
Uncaught_StorageSwallowed(kind) ==
    IF kind \in {"get", "set", "delete"} THEN "done" ELSE "failed"

\* a flush hook that catches what next() throws and goes on to the flush
Uncaught_HandlerCaught(kind) ==
    IF kind = "handler" THEN "handler" ELSE "failed"

\* no await of loadSessionData, save or $clear is inside a try, and neither
\* is the await next() of the flush hook: a rejection of kind kind leaves
\* derive, the getter, $clear and the flush hook as it came, and the chain
\* of the unit of work rejects
Uncaught(kind) == "failed"

\* the storage and the initializer are the application's: a call of theirs
\* may reject; at most MaxFail units of work meet a rejection
MayFail == Cardinality({c \in Ctx : hist[c].err # "none"}) < MaxFail

RECURSIVE SumOps(_)
SumOps(n) == IF n = 0 THEN 0 ELSE ops[n] + SumOps(n - 1)

\* handler logic of unit of work c may make one more operation: it is not
\* waiting for a promise, and the operations of all units of work together
\* (operations on a session value and invocations of the lazy accessor after
\* the first) stay within the bound
MayOperate(c) ==
    /\ pc[c] = "handler"
    /\ \A a \in Acc : accPc[c][a] \in {"none", "done"}
    /\ SumOps(MaxUow) < MaxOps

(***************************************************************************)
(* Construction                                                            *)
(***************************************************************************)
Init ==
    /\ mode \in {"eager", "lazy"}
    /\ hasInitialData \in BOOLEAN
    /\ heap = <<>>
    /\ proxyObj = <<>>
    /\ proxyCache = <<>>
    /\ targetCache = <<>>
    /\ managers = <<>>
    /\ sessionManagers = [c \in Ctx |-> Undefined]
    /\ storage = [k \in Keys |-> Undefined]
    /\ pc = [c \in Ctx |-> "idle"]
    /\ ukey = [c \in Ctx |-> "123"]
    /\ loadRes = [c \in Ctx |-> Undefined]
    /\ loaded = [c \in Ctx |-> FALSE]
    /\ keyPromise = [c \in Ctx |-> FALSE]
    /\ accPc = [c \in Ctx |-> [a \in Acc |-> "none"]]
    /\ accRes = [c \in Ctx |-> [a \in Acc |-> Undefined]]
    /\ clearM = [c \in Ctx |-> Undefined]
    /\ clearData = [c \in Ctx |-> Undefined]
    /\ ops = [c \in Ctx |-> 0]
    /\ hist = [c \in Ctx |-> NoHist]


(***************************************************************************)
(* in-memory-storage.ts                                                    *)
(***************************************************************************)
storageGet(key) == storage[key]

\* a storage that keeps one entry whatever the key
storageSet_Fixed(key, value) == storage' = [storage EXCEPT !["123"] = value]

storageSet(key, value) == storage' = [storage EXCEPT ![key] = value]

\* a storage that deletes one entry whatever the key
storageDelete_Fixed(key) == storage' = [storage EXCEPT !["123"] = Undefined]

storageDelete(key) == storage' = [storage EXCEPT ![key] = Undefined]

(***************************************************************************)
(* The dispatcher starts a unit of work.  Units of work are numbered in    *)
(* the order they start, and the first event comes from sender 123.        *)
(*                                                                         *)
(* Eager (derive-eager.ts): derive calls getSessionKey(context), awaits    *)
(* it, and calls loadSessionData, which runs up to its await of            *)
(* storage.get.  Nothing another unit of work does can tell the two steps  *)
(* apart, so they are one action.  Lazy (derive-lazy.ts): derive only      *)
(* builds the object with the getter, and handler logic starts.            *)
(***************************************************************************)
\* a lazy plugin whose derive loads at once
DeriveLoads_Always(md) == TRUE

\* an eager plugin whose derive loads nothing
DeriveLoads_Never(md) == FALSE

\* which derive the plugin installed: the eager one loads at once
DeriveLoads(md) == md = "eager"

Start(c) ==
    /\ pc[c] = "idle"
    /\ \A d \in Ctx : d < c => pc[d] # "idle"
    /\ \E k \in Keys :
        /\ c = 1 => k = "123"
        /\ ukey' = [ukey EXCEPT ![c] = k]
        /\ loadRes' = [loadRes EXCEPT ![c] =
                         IF DeriveLoads(mode) THEN storageGet(k) ELSE Undefined]
        /\ LET over == {d \in Active : ukey[d] = k} IN
           hist' = [d \in Ctx |->
                      IF d = c
                      THEN IF DeriveLoads(mode)
                           THEN [hist[d] EXCEPT !.overlap = (over # {}),
                                                !.keys = 1, !.gets = 1, !.skeys = {k}]
                           ELSE [hist[d] EXCEPT !.overlap = (over # {})]
                      ELSE IF d \in over THEN [hist[d] EXCEPT !.overlap = TRUE]
                      ELSE hist[d]]
    /\ pc' = [pc EXCEPT ![c] = IF DeriveLoads(mode) THEN "got" ELSE "handler"]
    /\ UNCHANGED <<mode, hasInitialData, heap, proxyObj, proxyCache, targetCache, managers,
                   sessionManagers, storage, loaded, keyPromise,
                   accPc, accRes, clearM, clearData, ops>>

\* the rest of loadSessionData (the initializer when nothing is stored),
\* createSessionWithClear and sessionManagers.set; then the flush hook calls
\* next() and handler logic starts
EagerCreate(c) ==
    /\ pc[c] = "got"
    /\ LET d == loadSessionData(loadRes[c], St(c))
           cs == createSessionWithClear(d.res, ukey[c], c, d.st)
       IN /\ SetSt(cs.st)
          /\ sessionManagers' = [sessionManagers EXCEPT ![c] = cs.res]
          /\ hist' = [hist EXCEPT ![c].mgrs = @ + 1,
                                  ![c].inits = @ + d.inits]
    /\ pc' = [pc EXCEPT ![c] = "handler"]
    /\ UNCHANGED <<mode, hasInitialData, storage, ukey, loadRes, loaded, keyPromise,
                   accPc, accRes, clearM, clearData, ops>>

\* loadSessionData rejects: storage.get rejected, or nothing was stored and
\* the initializer threw.  derive catches nothing: the chain of the unit of
\* work rejects before createSessionWithClear and before the hook's next()
LoadFail(c) ==
    /\ pc[c] = "got"
    /\ MayFail
    /\ \E kind \in {"get", "init"} :
         /\ kind = "init" => (loadRes[c] = Undefined /\ hasInitialData)
         /\ hist' = [hist EXCEPT ![c].err = kind,
                                 ![c].inits = @ + (IF kind = "init" THEN 1 ELSE 0)]
         /\ pc' = [pc EXCEPT ![c] = Uncaught(kind)]
    /\ UNCHANGED <<mode, hasInitialData, heap, proxyObj, proxyCache, targetCache,
                   managers, sessionManagers, storage, ukey, loadRes, loaded,
                   keyPromise, accPc, accRes, clearM, clearData, ops>>

\* the setter of the session field: ctx.session = value
Replace(c) ==
    /\ mode = "eager"
    /\ MayOperate(c)
    /\ \E kind \in {"fresh", "self", "raw"} :
        LET cur == managers[sessionManagers[c]].session
            new == IF kind = "fresh"
                   THEN Alloc(NewObject("obj", [NoFields EXCEPT !["counter"] = Prim(0)]),
                              St(c))
                   ELSE IF kind = "self"
                   THEN [res |-> cur, st |-> St(c)]
                   ELSE [res |-> RawOf(cur, St(c)), st |-> St(c)]
            value == new.res
            newTarget == getTarget(value, new.st)
            cs == createSessionWithClear(newTarget, ukey[c], c, new.st)
            m == cs.res
        IN /\ sessionManagers' = [sessionManagers EXCEPT ![c] = m]
           \* manager.save(), not awaited
           /\ IF ShouldSave(m, cs.st)
              THEN LET sd == saveData(m, cs.st) IN
                   /\ storageSet(ukey[c], sd.res)
                   /\ SetSt(sd.st)
                   /\ hist' = [hist EXCEPT ![c].mgrs = @ + 1, ![c].repls = @ + 1,
                                           ![c].last = "replace",
                                           ![c].sets = @ + 1,
                                           ![c].skeys = @ \cup {ukey[c]}]
              ELSE /\ SetSt(cs.st)
                   /\ hist' = [hist EXCEPT ![c].mgrs = @ + 1, ![c].repls = @ + 1,
                                           ![c].last = "replace"]
                   /\ UNCHANGED storage
    /\ ops' = [ops EXCEPT ![c] = @ + 1]
    /\ UNCHANGED <<mode, hasInitialData, pc, ukey, loadRes, loaded, keyPromise,
                   accPc, accRes, clearM, clearData>>

(***************************************************************************)
(* derive-lazy.ts: the getter of the session field.  Every invocation is   *)
(* an asynchronous function of its own; the closure variables loaded,      *)
(* manager and sessionKeyPromise are shared by the invocations of one      *)
(* unit of work.                                                           *)
(***************************************************************************)
\* the getter when loaded is true returns manager.session at once; otherwise
\* it sets sessionKeyPromise if it is not set, awaits it, and calls
\* loadSessionData, which runs up to its await of storage.get (one action:
\* only this unit of work can tell the two steps apart, and it is waiting)
LazyAccess(c, a) ==
    /\ mode = "lazy"
    /\ pc[c] = "handler"
    /\ accPc[c][a] = "none"
    /\ \A b \in Acc : b < a => accPc[c][b] # "none"
    \* every invocation after the first counts as a handler operation
    /\ a > 1 => SumOps(MaxUow) < MaxOps
    /\ ops' = [ops EXCEPT ![c] = @ + (IF a > 1 THEN 1 ELSE 0)]
    /\ IF loaded[c]
       THEN /\ accPc' = [accPc EXCEPT ![c][a] = "done"]
            /\ accRes' = [accRes EXCEPT ![c][a] = managers[sessionManagers[c]].session]
            /\ UNCHANGED <<keyPromise, hist>>
       ELSE /\ accPc' = [accPc EXCEPT ![c][a] = "get"]
            /\ accRes' = [accRes EXCEPT ![c][a] = storageGet(ukey[c])]
            /\ keyPromise' = [keyPromise EXCEPT ![c] = TRUE]
            /\ hist' = [hist EXCEPT ![c].keys = @ + (IF keyPromise[c] THEN 0 ELSE 1),
                                    ![c].gets = @ + 1,
                                    ![c].skeys = @ \cup {ukey[c]}]
    /\ UNCHANGED <<mode, hasInitialData, heap, proxyObj, proxyCache, targetCache, managers,
                   sessionManagers, storage, pc, ukey, loadRes, loaded,
                   clearM, clearData>>

\* the rest of loadSessionData, createSessionWithClear, sessionManagers.set,
\* loaded = true, return manager.session
LazyCreate(c, a) ==
    /\ accPc[c][a] = "get"
    /\ LET d == loadSessionData(accRes[c][a], St(c))
           cs == createSessionWithClear(d.res, ukey[c], c, d.st)
       IN /\ SetSt(cs.st)
          /\ sessionManagers' = [sessionManagers EXCEPT ![c] = cs.res]
          /\ accRes' = [accRes EXCEPT ![c][a] = cs.st.managers[cs.res].session]
          /\ hist' = [hist EXCEPT ![c].mgrs = @ + 1,
                                  ![c].inits = @ + d.inits]
    /\ loaded' = [loaded EXCEPT ![c] = TRUE]
    /\ accPc' = [accPc EXCEPT ![c][a] = "done"]
    /\ UNCHANGED <<mode, hasInitialData, storage, pc, ukey, loadRes, keyPromise,
                   clearM, clearData, ops>>

\* loadSessionData rejects inside the getter: the promise the getter
\* returned rejects, loaded stays false and no manager is made; the handler
\* that awaits it throws, and so does the hook's await next()
LazyLoadFail(c, a) ==
    /\ accPc[c][a] = "get"
    /\ pc[c] = "handler"
    /\ MayFail
    /\ \E kind \in {"get", "init"} :
         /\ kind = "init" => (accRes[c][a] = Undefined /\ hasInitialData)
         /\ hist' = [hist EXCEPT ![c].err = kind,
                                 ![c].inits = @ + (IF kind = "init" THEN 1 ELSE 0)]
         /\ pc' = [pc EXCEPT ![c] = Uncaught(kind)]
    /\ accPc' = [accPc EXCEPT ![c][a] = "failed"]
    /\ UNCHANGED <<mode, hasInitialData, heap, proxyObj, proxyCache, targetCache,
                   managers, sessionManagers, storage, ukey, loadRes, loaded,
                   keyPromise, accRes, clearM, clearData, ops>>

(***************************************************************************)
(* Handler logic.  It works on a session value it got from the accessor:   *)
(* eager, manager.session; lazy, what an awaited invocation resolved to.   *)
(***************************************************************************)
Handles(c) ==
    IF mode = "eager"
    THEN {managers[sessionManagers[c]].session}
    ELSE {accRes[c][a] : a \in {b \in Acc : accPc[c][b] = "done"}}

\* x.p1.p2...: the get traps along a path; seen: the wrappers it went through
RECURSIVE Nav(_, _, _)
Nav(x, path, st) ==
    IF path = <<>> THEN [res |-> x, st |-> st, seen |-> {x}]
    ELSE LET g == JsGet(x, Head(path), st)
             r == IF IsObject(g.res) THEN Nav(g.res, Tail(path), g.st)
                  ELSE [res |-> Undefined, st |-> g.st, seen |-> {}]
         IN [res |-> r.res, st |-> r.st, seen |-> r.seen \cup {x}]

\* session.counter++ and session.nested.items[0]++
WriteTargets ==
    { [path |-> <<>>, field |-> "counter"],
      [path |-> <<"nested", "items">>, field |-> "0"] }

\* delete session.counter and delete session.nested.value
DeleteTargets ==
    { [path |-> <<>>, field |-> "counter"],
      [path |-> <<"nested">>, field |-> "value"] }

\* session.nested.items and session.alias
ReadPaths == << <<"nested", "items">>, <<"alias">> >>

HandlerFrame == <<mode, hasInitialData, sessionManagers, storage, pc, ukey, loadRes, loaded,
                  keyPromise, accPc, accRes, clearM, clearData>>

\* session.path.field++ : a read and a write through the wrapper
Write(c) ==
    /\ MayOperate(c)
    /\ \E h \in Handles(c), t \in WriteTargets :
        LET n == Nav(h, t.path, St(c)) IN
        /\ IsObject(n.res)
        /\ LET old == JsGet(n.res, t.field, n.st) IN
           /\ old.res.t = "prim"
           /\ SetSt(JsSet(n.res, t.field, Prim(old.res.v + 1), old.st))
        /\ hist' = [hist EXCEPT ![c].muts = @ + 1, ![c].last = "mut",
                                ![c].incs = @ + (IF t.path = <<>> THEN 1 ELSE 0),
                                ![c].seen = @ \cup n.seen]
    /\ ops' = [ops EXCEPT ![c] = @ + 1]
    /\ UNCHANGED HandlerFrame

\* delete h.path.field for one wrapper h and one target
DeleteAt(c, h, t) ==
    LET n == Nav(h, t.path, St(c)) IN
    /\ IsObject(n.res)
    /\ SetSt(JsDelete(n.res, t.field, n.st))
    /\ hist' = [hist EXCEPT ![c].muts = @ + 1, ![c].last = "mut",
                            ![c].seen = @ \cup n.seen]

\* delete session.path.field
DeleteField(c) ==
    /\ MayOperate(c)
    /\ \E h \in Handles(c), t \in DeleteTargets : DeleteAt(c, h, t)
    /\ ops' = [ops EXCEPT ![c] = @ + 1]
    /\ UNCHANGED HandlerFrame

\* session.alias = session.nested.items : the value written is a wrapper
StoreWrapper(c) ==
    /\ MayOperate(c)
    /\ \E h \in Handles(c) :
        LET n == Nav(h, <<"nested", "items">>, St(c)) IN
        /\ IsObject(n.res)
        /\ SetSt(JsSet(h, "alias", n.res, n.st))
        /\ hist' = [hist EXCEPT ![c].muts = @ + 1, ![c].last = "mut",
                                ![c].seen = @ \cup n.seen]
    /\ ops' = [ops EXCEPT ![c] = @ + 1]
    /\ UNCHANGED HandlerFrame

\* handler logic reads every container it can reach and writes nothing
Read(c) ==
    /\ MayOperate(c)
    /\ \E h \in Handles(c) :
        LET n1 == Nav(h, ReadPaths[1], St(c))
            n2 == Nav(h, ReadPaths[2], n1.st)
        IN /\ SetSt(n2.st)
           /\ hist' = [hist EXCEPT ![c].seen = @ \cup n1.seen \cup n2.seen]
    /\ ops' = [ops EXCEPT ![c] = @ + 1]
    /\ UNCHANGED HandlerFrame

(***************************************************************************)
(* session-manager.ts: $clear, awaited by the handler                      *)
(***************************************************************************)
\* $clear up to its first await: storage.delete(sessionKey)
ClearDelete(c) ==
    /\ MayOperate(c)
    /\ \E h \in Handles(c) :
        LET m == heap[RawOf(h, St(c))].clear IN
        /\ clearM' = [clearM EXCEPT ![c] = m]
        /\ storageDelete(managers[m].sessionKey)
        /\ hist' = [hist EXCEPT ![c].dels = @ + 1,
                                ![c].skeys = @ \cup {managers[m].sessionKey},
                                ![c].seen = @ \cup {h}]
    /\ pc' = [pc EXCEPT ![c] = "clear1"]
    /\ UNCHANGED <<mode, hasInitialData, heap, proxyObj, proxyCache, targetCache, managers,
                   sessionManagers, ukey, loadRes, loaded, keyPromise,
                   accPc, accRes, clearData, ops>>

\* dirty = false, then the initializer is called and awaited
ClearInit(c) ==
    /\ pc[c] = "clear1"
    /\ LET d == initialOrEmpty([St(c) EXCEPT !.managers[clearM[c]].dirty = FALSE])
       IN /\ SetSt(d.st)
          /\ clearData' = [clearData EXCEPT ![c] = d.res]
          /\ hist' = [hist EXCEPT ![c].inits = @ + d.inits]
    /\ pc' = [pc EXCEPT ![c] = "clear2"]
    /\ UNCHANGED <<mode, hasInitialData, sessionManagers, storage, ukey, loadRes, loaded,
                   keyPromise, accPc, accRes, clearM, ops>>

\* the target is emptied and refilled in place; $clear returns
ClearFinish(c) ==
    /\ pc[c] = "clear2"
    /\ SetSt(clearInPlace(clearM[c], clearData[c], St(c)))
    /\ clearM' = [clearM EXCEPT ![c] = Undefined]
    /\ clearData' = [clearData EXCEPT ![c] = Undefined]
    /\ hist' = [hist EXCEPT ![c].resets = @ + 1, ![c].last = "reset"]
    /\ ops' = [ops EXCEPT ![c] = @ + 1]
    /\ pc' = [pc EXCEPT ![c] = "handler"]
    /\ UNCHANGED <<mode, hasInitialData, sessionManagers, storage, ukey, loadRes, loaded,
                   keyPromise, accPc, accRes>>

\* storage.delete rejects: $clear rejects at its first await, before
\* dirty = false and before the target is touched; the handler throws
ClearDeleteFail(c) ==
    /\ MayOperate(c)
    /\ MayFail
    /\ \E h \in Handles(c) :
        LET m == heap[RawOf(h, St(c))].clear IN
        hist' = [hist EXCEPT ![c].dels = @ + 1,
                             ![c].skeys = @ \cup {managers[m].sessionKey},
                             ![c].seen = @ \cup {h},
                             ![c].err = "delete"]
    /\ pc' = [pc EXCEPT ![c] = Uncaught("delete")]
    /\ UNCHANGED <<mode, hasInitialData, heap, proxyObj, proxyCache, targetCache,
                   managers, sessionManagers, storage, ukey, loadRes, loaded,
                   keyPromise, accPc, accRes, clearM, clearData, ops>>

\* dirty = false, then the initializer throws: $clear rejects with the entry
\* deleted and the target as it was; the handler throws
ClearInitFail(c) ==
    /\ pc[c] = "clear1"
    /\ MayFail
    /\ hasInitialData
    /\ managers' = [managers EXCEPT ![clearM[c]].dirty = FALSE]
    /\ clearM' = [clearM EXCEPT ![c] = Undefined]
    /\ hist' = [hist EXCEPT ![c].inits = @ + 1, ![c].err = "clearinit"]
    /\ pc' = [pc EXCEPT ![c] = Uncaught("clearinit")]
    /\ UNCHANGED <<mode, hasInitialData, heap, proxyObj, proxyCache, targetCache,
                   sessionManagers, storage, ukey, loadRes, loaded,
                   keyPromise, accPc, accRes, clearData, ops>>

\* handler logic throws by itself, at any point where it is not waiting:
\* next() rejects, and the flush hook with it at its await next()
HandlerThrow(c) ==
    /\ pc[c] = "handler"
    /\ \A a \in Acc : accPc[c][a] \in {"none", "done"}
    /\ hist[c].err = "none"
    /\ MayFail
    /\ hist' = [hist EXCEPT ![c].err = "handler"]
    /\ pc' = [pc EXCEPT ![c] = Uncaught("handler")]
    /\ UNCHANGED <<mode, hasInitialData, heap, proxyObj, proxyCache, targetCache,
                   managers, sessionManagers, storage, ukey, loadRes, loaded,
                   keyPromise, accPc, accRes, clearM, clearData, ops>>

(***************************************************************************)
(* The flush hook of both plugins: after await next()                      *)
(***************************************************************************)
\* handler logic has returned; manager?.isDirty() and save up to its await
FlushHook(c) ==
    /\ pc[c] = "handler"
    /\ \A a \in Acc : accPc[c][a] \in {"none", "done"}
    /\ LET m == sessionManagers[c] IN
       IF m # Undefined /\ managers[m].dirty /\ ShouldSave(m, St(c))
       THEN LET sd == saveData(m, St(c)) IN
            /\ SetSt(sd.st)
            /\ storageSet(managers[m].sessionKey, sd.res)
            /\ hist' = [hist EXCEPT ![c].sets = @ + 1,
                                    ![c].skeys = @ \cup {managers[m].sessionKey}]
            /\ pc' = [pc EXCEPT ![c] = "saving"]
       ELSE /\ pc' = [pc EXCEPT ![c] = "done"]
            /\ UNCHANGED <<heap, proxyObj, proxyCache, targetCache, managers,
                           storage, hist>>
    /\ UNCHANGED <<mode, hasInitialData, sessionManagers, ukey, loadRes, loaded, keyPromise,
                   accPc, accRes, clearM, clearData, ops>>

\* the flush hook when storage.set rejects: save rejects at its await, and
\* the hook with it
FlushFail(c) ==
    /\ pc[c] = "handler"
    /\ \A a \in Acc : accPc[c][a] \in {"none", "done"}
    /\ MayFail
    /\ LET m == sessionManagers[c] IN
       /\ m # Undefined /\ managers[m].dirty /\ ShouldSave(m, St(c))
       /\ SetSt(saveFailed(m, saveData(m, St(c)).st))
       /\ hist' = [hist EXCEPT ![c].sets = @ + 1,
                               ![c].skeys = @ \cup {managers[m].sessionKey},
                               ![c].err = "set"]
    /\ pc' = [pc EXCEPT ![c] = Uncaught("set")]
    /\ UNCHANGED <<mode, hasInitialData, sessionManagers, storage, ukey, loadRes,
                   loaded, keyPromise, accPc, accRes, clearM, clearData, ops>>

\* save after await storage.set: dirty = false; the hook returns
SaveResume(c) ==
    /\ pc[c] = "saving"
    /\ managers' = saveDone(sessionManagers[c], St(c)).managers
    /\ pc' = [pc EXCEPT ![c] = "done"]
    /\ UNCHANGED <<mode, hasInitialData, heap, proxyObj, proxyCache, targetCache,
                   sessionManagers, storage, ukey, loadRes, loaded, keyPromise,
                   accPc, accRes, clearM, clearData, ops, hist>>

Next ==
    \/ \E c \in Ctx : Start(c)
    \/ \E c \in Ctx : EagerCreate(c)
    \/ \E c \in Ctx, a \in Acc : LazyAccess(c, a)
    \/ \E c \in Ctx, a \in Acc : LazyCreate(c, a)
    \/ \E c \in Ctx : Write(c)
    \/ \E c \in Ctx : DeleteField(c)
    \/ \E c \in Ctx : StoreWrapper(c)
    \/ \E c \in Ctx : Read(c)
    \/ \E c \in Ctx : Replace(c)
    \/ \E c \in Ctx : ClearDelete(c)
    \/ \E c \in Ctx : ClearInit(c)
    \/ \E c \in Ctx : ClearFinish(c)
    \/ \E c \in Ctx : FlushHook(c)
    \/ \E c \in Ctx : SaveResume(c)
    \/ \E c \in Ctx : LoadFail(c)
    \/ \E c \in Ctx, a \in Acc : LazyLoadFail(c, a)
    \/ \E c \in Ctx : ClearDeleteFail(c)
    \/ \E c \in Ctx : ClearInitFail(c)
    \/ \E c \in Ctx : FlushFail(c)
    \/ \E c \in Ctx : HandlerThrow(c)

Spec == Init /\ [][Next]_vars

(***************************************************************************)
(* The same program later in its life: an earlier unit of work for key     *)
(* "123" (numbered 0) found storage empty, got the baseline, made          *)
(* session.counter++ and was flushed.  Storage holds the copy its save     *)
(* made, which shares the nested object with the session of that unit of   *)
(* work; the heap, the proxy caches and the manager are what it left.      *)
(***************************************************************************)
Earlier ==
    LET s0 == [heap |-> <<>>, proxyObj |-> <<>>, proxyCache |-> <<>>,
               targetCache |-> <<>>, managers |-> <<>>, cur |-> 0]
        d == getInitialData(s0)
        cs == createSessionWithClear(d.res, "123", 0, d.st)
        session == cs.st.managers[cs.res].session
        old == JsGet(session, "counter", cs.st)
        w == JsSet(session, "counter", Prim(old.res.v + 1), old.st)
        sd == saveData(cs.res, w)
    IN [stored |-> sd.res, st |-> saveDone(cs.res, sd.st)]

InitStored ==
    /\ mode \in {"eager", "lazy"}
    /\ hasInitialData = TRUE
    /\ heap = Earlier.st.heap
    /\ proxyObj = Earlier.st.proxyObj
    /\ proxyCache = Earlier.st.proxyCache
    /\ targetCache = Earlier.st.targetCache
    /\ managers = Earlier.st.managers
    /\ sessionManagers = [c \in Ctx |-> Undefined]
    /\ storage = [k \in Keys |-> IF k = "123" THEN Earlier.stored ELSE Undefined]
    /\ pc = [c \in Ctx |-> "idle"]
    /\ ukey = [c \in Ctx |-> "123"]
    /\ loadRes = [c \in Ctx |-> Undefined]
    /\ loaded = [c \in Ctx |-> FALSE]
    /\ keyPromise = [c \in Ctx |-> FALSE]
    /\ accPc = [c \in Ctx |-> [a \in Acc |-> "none"]]
    /\ accRes = [c \in Ctx |-> [a \in Acc |-> Undefined]]
    /\ clearM = [c \in Ctx |-> Undefined]
    /\ clearData = [c \in Ctx |-> Undefined]
    /\ ops = [c \in Ctx |-> 0]
    /\ hist = [c \in Ctx |-> NoHist]

SpecStored == InitStored /\ [][Next]_vars

(***************************************************************************)
(* Vocabulary of the properties                                            *)
(***************************************************************************)
Started == {c \in Ctx : pc[c] # "idle"}

\* the step is the one in which the flush hook of c returns
Finishes(c) == pc[c] # "done" /\ pc'[c] = "done"

\* the step is taken by unit of work c
StepOf(c) == pc'[c] # pc[c] \/ ops'[c] # ops[c] \/ accPc'[c] # accPc[c]

\* the invocations of the getter that unit of work c has made
Accessed(c) == {a \in Acc : accPc[c][a] # "none"}

\* the session value the accessor of c returns now
CurSession(c) == managers[sessionManagers[c]].session

\* the raw container under the session of c
CurRaw(c) == RawOf(CurSession(c), St(c))

\* the storage entry of c's key is the field-to-value mapping of c's session
StoredEquals(c) ==
    /\ sessionManagers[c] # Undefined
    /\ storage[ukey[c]] # Undefined
    /\ \A f \in Fields : heap[storage[ukey[c]]].f[f] = heap[CurRaw(c)].f[f]

\* the raw container r holds exactly what the initializer returns
IsBaseline(r) ==
    IF ~hasInitialData THEN \A f \in Fields : heap[r].f[f] = Undefined
    ELSE
    /\ heap[r].f["counter"] = Prim(0)
    /\ heap[r].f["nested"].t = "raw"
    /\ LET n == heap[r].f["nested"] IN
       /\ heap[n].f["value"] = Prim(0)
       /\ heap[n].f["items"].t = "raw"
       /\ heap[heap[n].f["items"]].f["0"] = Prim(0)
       /\ \A f \in Fields \ {"value", "items"} : heap[n].f[f] = Undefined
    /\ \A f \in Fields \ {"counter", "nested"} : heap[r].f[f] = Undefined

(***************************************************************************)
(* C1. Automatic persistence: when the flush hook of a unit of work        *)
(* returns, and handler logic made at least one tracked write or delete    *)
(* that no reset or replacement followed, and no other unit of work of the *)
(* same key ran meanwhile, the storage entry of the key equals the         *)
(* session's field-to-value mapping.                                       *)
(***************************************************************************)
C1_AutomaticPersistence ==
    [][\A c \in Ctx :
         (Finishes(c) /\ hist[c].muts >= 1 /\ hist[c].last = "mut" /\ ~hist[c].overlap)
            => StoredEquals(c)']_vars

(***************************************************************************)
(* C2. Batching: a unit of work with neither reset nor replacement issues  *)
(* no storage.set before its flush hook runs, exactly one if handler logic *)
(* made N >= 1 tracked mutations, and none if it made none.                *)
(***************************************************************************)
C2_Batching ==
    \A c \in Ctx :
        (hist[c].resets = 0 /\ hist[c].repls = 0 /\ pc[c] \notin {"clear1", "clear2"}) =>
            /\ (pc[c] \notin {"saving", "done"} /\ hist[c].err # "set")
                  => hist[c].sets = 0
            /\ (pc[c] = "done" /\ hist[c].muts >= 1) => hist[c].sets = 1
            /\ (pc[c] = "done" /\ hist[c].muts = 0) => hist[c].sets = 0

SequentialIncrements ==
    \A c \in Started : /\ pc[c] = "done"
                       /\ ukey[c] = "123"
                       /\ ~hist[c].overlap
                       /\ ops[c] = 1
                       /\ hist[c].incs = 1

(***************************************************************************)
(* C4. Round trip: storage starts empty and the baseline has counter 0;    *)
(* when k units of work for key "123" have run one after the other, each   *)
(* making one session.counter++ and nothing else, storage holds counter =  *)
(* k for the key, and every unit of work after the first read the stored   *)
(* entry instead of calling the initializer.                               *)
(***************************************************************************)
C4_RoundTrip ==
    (Started # {} /\ SequentialIncrements) =>
        /\ storage["123"] # Undefined
        /\ heap[storage["123"]].f["counter"] = Prim(Cardinality(Started))
        /\ \A c \in Started : /\ hist[c].gets = 1
                              /\ hist[c].sets = 1
                              /\ hist[c].inits = (IF c = 1 THEN 1 ELSE 0)

C4_Witness == Cardinality(Started) >= 2 /\ SequentialIncrements

\* the step leaves what belongs to other keys than the one of c as it was
OthersUntouched(c) ==
    /\ \A k \in Keys \ {ukey'[c]} : storage'[k] = storage[k]
    /\ \A m \in DOMAIN managers :
         managers[m].sessionKey # ukey'[c] => managers'[m] = managers[m]
    /\ \A d \in Ctx \ {c} :
         (pc[d] # "idle" /\ ukey[d] # ukey'[c] /\ sessionManagers[d] # Undefined)
            => heap'[CurRaw(d)] = heap[CurRaw(d)]
    /\ hist'[c].skeys \subseteq {ukey'[c]}

RECURSIVE IncsOf(_, _)
IncsOf(k, n) ==
    IF n = 0 THEN 0
    ELSE (IF pc[n] # "idle" /\ ukey[n] = k THEN hist[n].incs ELSE 0) + IncsOf(k, n - 1)

\* the stored counter of key k is the number of increments its units of work made
OwnCount(k) ==
    LET us == {c \in Started : ukey[c] = k} IN
    (/\ us # {}
     /\ \A c \in us : /\ pc[c] = "done"
                      /\ ~hist[c].overlap
                      /\ hist[c].incs >= 1
                      /\ ops[c] = hist[c].incs)
        => /\ storage[k] # Undefined
           /\ heap[storage[k]].f["counter"] = Prim(IncsOf(k, MaxUow))

(***************************************************************************)
(* C5. Isolation between keys: a step of a unit of work for key A leaves   *)
(* the storage entry of every other key, the managers made for every other *)
(* key and the raw session of every unit of work of another key as they    *)
(* were, and issues storage calls for key A only; and when the units of    *)
(* work of a key ran one after the other and did nothing but               *)
(* session.counter++, the stored counter of the key is the number of their *)
(* increments, however the units of work of other keys interleave.         *)
(***************************************************************************)
C5_Isolation ==
    /\ [][\A c \in Ctx : StepOf(c) => OthersUntouched(c)]_vars
    /\ [](\A k \in Keys : OwnCount(k))

C5_Witness ==
    \E c, d \in Ctx : /\ ukey[c] # ukey[d]
                      /\ pc[c] = "handler" /\ hist[c].incs >= 1
                      /\ pc[d] = "saving" /\ hist[d].incs >= 1

\* d is the unit of work of its key that follows c
NextOfKey(c, d) ==
    /\ c < d
    /\ pc[d] # "idle"
    /\ ukey[c] = ukey[d]
    /\ \A e \in Ctx : (c < e /\ e < d) => ukey[e] # ukey[c]

(***************************************************************************)
(* C6. Reset semantics: when the flush hook of a unit of work returns, and *)
(* the last thing handler logic did to the session was a completed reset,  *)
(* and no other unit of work of the key ran meanwhile, storage has no      *)
(* entry for the key; and the next unit of work of the key materializes    *)
(* exactly the baseline, from one call of the initializer.                 *)
(***************************************************************************)
C6_ResetSemantics ==
    /\ [][\A c \in Ctx :
            (Finishes(c) /\ hist[c].last = "reset" /\ ~hist[c].overlap)
               => storage'[ukey[c]] = Undefined]_vars
    /\ [](\A c, d \in Ctx :
            (/\ NextOfKey(c, d)
             /\ hist[c].last = "reset" /\ ~hist[c].overlap /\ ~hist[d].overlap
             /\ sessionManagers[d] # Undefined /\ ops[d] = 0 /\ hist[d].dels = 0)
               => /\ IsBaseline(CurRaw(d))
                  /\ hist[d].inits = (IF hasInitialData THEN 1 ELSE 0))

(***************************************************************************)
(* C7. Lazy skip: in lazy mode a unit of work whose handler logic never    *)
(* invokes the accessor issues no storage call, calls neither the key      *)
(* resolver nor the initializer, and has no session manager.               *)
(***************************************************************************)
C7_LazySkip ==
    \A c \in Ctx :
        (mode = "lazy" /\ pc[c] # "idle" /\ Accessed(c) = {}) =>
            /\ hist[c].gets = 0 /\ hist[c].sets = 0 /\ hist[c].dels = 0
            /\ hist[c].keys = 0 /\ hist[c].inits = 0 /\ hist[c].mgrs = 0
            /\ sessionManagers[c] = Undefined

C7_Witness ==
    \E c \in Ctx : mode = "lazy" /\ pc[c] = "done" /\ Accessed(c) = {}

(***************************************************************************)
(* C8. Lazy single read: in lazy mode a unit of work that has invoked the  *)
(* accessor, however often and in whatever interleaving, has issued        *)
(* exactly one storage.get.                                                *)
(***************************************************************************)
C8_LazySingleRead ==
    \A c \in Ctx :
        (mode = "lazy" /\ Accessed(c) # {}) => hist[c].gets = 1

(***************************************************************************)
(* C9. Lazy single instance: in lazy mode a unit of work instantiates at   *)
(* most one session manager, and every invocation of the accessor that has *)
(* resolved holds the same session value, the one of the manager the flush *)
(* hook consults.                                                          *)
(***************************************************************************)
C9_LazySingleInstance ==
    \A c \in Ctx :
        mode = "lazy" =>
            /\ hist[c].mgrs <= 1
            /\ \A a \in Acc : accPc[c][a] = "done" => accRes[c][a] = CurSession(c)

(***************************************************************************)
(* C10. Wrapper identity: within one unit of work, two wrappers handed to  *)
(* handler logic for the same raw container are the same wrapper, whatever *)
(* was written in between.                                                 *)
(***************************************************************************)
C10_WrapperIdentity ==
    \A c \in Ctx : \A w1, w2 \in hist[c].seen :
        RawOf(w1, St(c)) = RawOf(w2, St(c)) => w1 = w2

(***************************************************************************)
(* C11. The reset capability is never persisted: a mapping handed to       *)
(* storage.set carries no $clear, whatever the session was built from      *)
(* (baseline, stored value, after a reset, after a replacement), while     *)
(* the raw container under every session value handed to handler logic     *)
(* carries $clear, outside its enumerable fields.                          *)
(***************************************************************************)
C11_ClearNeverPersisted ==
    /\ [][\A k \in Keys :
            (storage'[k] # storage[k] /\ storage'[k] # Undefined)
               => heap'[storage'[k]].clear = Undefined]_vars
    /\ [](\A c \in Ctx : \A h \in (IF sessionManagers[c] = Undefined THEN {} ELSE Handles(c)) :
            heap[RawOf(h, St(c))].clear # Undefined)

C11_Witness ==
    \E c \in Ctx : /\ pc[c] = "saving"
                   /\ hist[c].inits = 0
                   /\ heap[CurRaw(c)].clear # Undefined
                   /\ heap[storage[ukey[c]]].clear = Undefined

\* the raw container a path leads to from the raw session container r
RECURSIVE RawAt(_, _)
RawAt(r, path) ==
    IF path = <<>> THEN r
    ELSE IF heap[r].f[Head(path)].t = "raw"
         THEN RawAt(heap[r].f[Head(path)], Tail(path))
         ELSE Undefined

(***************************************************************************)
(* C12  Deletion propagation.  Deleting a field (top-level or nested)      *)
(* through a session wrapper removes that field from the raw container     *)
(* and leaves its other fields alone, marks dirty the manager that the     *)
(* flush hook of the unit of work consults, and the mapping persisted at   *)
(* the end of a unit of work whose only operation was the deletion has     *)
(* the field absent while the other fields keep their values.              *)
(***************************************************************************)
C12_DeletionPropagation ==
    /\ [][\A c \in Ctx : (MayOperate(c) /\ hist[c].repls = 0 /\ hist[c].mgrs <= 1) =>
            \A h \in Handles(c), t \in DeleteTargets :
               DeleteAt(c, h, t) =>
                 LET n == Nav(h, t.path, St(c))
                     raw == RawOf(n.res, n.st)
                 IN heap[raw].f[t.field] # Undefined =>
                    /\ heap'[raw].f[t.field] = Undefined
                    /\ \A f \in Fields \ {t.field} :
                          heap'[raw].f[f] = heap[raw].f[f]
                    /\ managers'[sessionManagers[c]].dirty]_vars
    /\ [][\A c \in Ctx :
            (/\ Finishes(c)
             /\ ops[c] = 1 /\ hist[c].muts = 1 /\ ~hist[c].overlap
             /\ hist[c].resets = 0 /\ hist[c].repls = 0 /\ hist[c].mgrs <= 1) =>
               \A t \in DeleteTargets :
                  (/\ RawAt(CurRaw(c), t.path) # Undefined
                   /\ heap[RawAt(CurRaw(c), t.path)].f[t.field] = Undefined) =>
                     /\ StoredEquals(c)'
                     /\ RawAt(storage'[ukey[c]], t.path) # Undefined
                     /\ heap'[RawAt(storage'[ukey[c]], t.path)].f[t.field] = Undefined]_vars

(***************************************************************************)
(* C13  Flush is idempotent.  When a flush has completed, a second call    *)
(* of save with no mutation in between finds the manager clean and issues  *)
(* no storage.set; a flush of a unit of work whose manager is not dirty    *)
(* (or that has no manager) performs no storage operation; the flushes of  *)
(* one unit of work issue storage.set at most once.                        *)
(***************************************************************************)
C13_FlushIdempotent ==
    /\ [][\A c \in Ctx :
            (pc[c] = "saving" /\ pc'[c] = "done") =>
               /\ ~ShouldSave(sessionManagers[c], St(c))'
               /\ storage' = storage /\ hist'[c].sets = hist[c].sets]_vars
    /\ [][\A c \in Ctx :
            (/\ pc[c] = "handler" /\ pc'[c] \in {"saving", "done"}
             /\ sessionManagers[c] # Undefined =>
                   ~ShouldSave(sessionManagers[c], St(c))) =>
               /\ pc'[c] = "done"
               /\ storage' = storage
               /\ hist'[c] = hist[c]]_vars
    /\ [](\A c \in Ctx : hist[c].sets <= 1)

C13_Witness ==
    \E c \in Ctx : /\ pc[c] = "done"
                   /\ hist[c].sets = 1
                   /\ hist[c].muts >= 1
                   /\ ~ShouldSave(sessionManagers[c], St(c))

(***************************************************************************)
(* C14  Reset clears dirty without writing.  A reset issues one            *)
(* storage.delete, for the session key of the unit of work, and no         *)
(* storage.set; when it returns the manager the flush hook consults is not *)
(* dirty; and when no other unit of work of the key ran meanwhile and no   *)
(* mutation follows the reset, the flush hook issues no storage.set.       *)
(***************************************************************************)
C14_ResetClearsDirty ==
    /\ [][\A c \in Ctx :
            (pc[c] = "handler" /\ pc'[c] = "clear1") =>
               /\ hist'[c].dels = hist[c].dels + 1
               /\ hist'[c].sets = hist[c].sets
               /\ hist'[c].skeys \subseteq {ukey[c]}
               /\ storage'[ukey[c]] = Undefined]_vars
    /\ [][\A c \in Ctx :
            (pc[c] \in {"clear1", "clear2"}) =>
               /\ hist'[c].dels = hist[c].dels
               /\ hist'[c].sets = hist[c].sets]_vars
    /\ [][\A c \in Ctx :
            (pc[c] = "clear2" /\ pc'[c] = "handler" /\ ~hist[c].overlap) =>
               ~managers'[sessionManagers[c]].dirty]_vars
    /\ [][\A c \in Ctx :
            (/\ pc[c] = "handler" /\ pc'[c] \in {"saving", "done"}
             /\ hist[c].last = "reset" /\ ~hist[c].overlap) =>
               /\ pc'[c] = "done"
               /\ hist'[c].sets = hist[c].sets]_vars

\* the raw container r reads as the baseline does at one of its levels: the
\* whole mapping, its nested object, or the array of the nested object
ReadsBaseline(r) ==
    \/ IsBaseline(r)
    \/ /\ hasInitialData
       /\ heap[r].f["value"] = Prim(0)
       /\ heap[r].f["items"].t = "raw"
       /\ heap[heap[r].f["items"]].f["0"] = Prim(0)
       /\ \A f \in Fields \ {"value", "items"} : heap[r].f[f] = Undefined
    \/ /\ hasInitialData
       /\ heap[r].kind = "arr"
       /\ heap[r].f["0"] = Prim(0)
       /\ \A f \in Fields \ {"0"} : heap[r].f[f] = Undefined

(***************************************************************************)
(* C15  Reset is visible through outstanding wrappers.  When a reset has   *)
(* completed and nothing was done to the session since, every wrapper the  *)
(* handler logic of the unit of work obtained before (the session wrapper  *)
(* and the wrappers of nested containers) reads baseline values.           *)
(***************************************************************************)
C15_ResetVisible ==
    \A c \in Ctx :
        (/\ pc[c] = "handler" /\ hist[c].last = "reset"
         /\ hist[c].mgrs <= 1 /\ ~hist[c].overlap) =>
            \A w \in hist[c].seen : ReadsBaseline(RawOf(w, St(c)))

\* the step materializes the session of c from the value got that
\* storage.get returned to it
Materializes(c, got) ==
    \/ /\ pc[c] = "got" /\ pc'[c] = "handler"
       /\ got = loadRes[c]
    \/ \E a \in Acc : /\ accPc[c][a] = "get" /\ accPc'[c][a] = "done"
                      /\ got = accRes[c][a]

(***************************************************************************)
(* C16  Load-or-initialize.  The session materialized for a unit of work   *)
(* is the stored mapping, field for field, when storage.get returned a     *)
(* value, and then the initializer is not called; otherwise it is exactly  *)
(* the baseline of one call of the initializer; otherwise, when no         *)
(* initializer is configured, it is an empty mapping.                      *)
(***************************************************************************)
C16_LoadOrInitialize ==
    [][\A c \in Ctx : \A got \in DOMAIN heap \cup {Undefined} :
          Materializes(c, got) =>
             IF got # Undefined
             THEN /\ \A f \in Fields : heap'[CurRaw(c)'].f[f] = heap[got].f[f]
                  /\ hist'[c].inits = hist[c].inits
             ELSE IF hasInitialData
             THEN /\ IsBaseline(CurRaw(c))'
                  /\ CurRaw(c)' \notin DOMAIN heap
                  /\ hist'[c].inits = hist[c].inits + 1
             ELSE /\ \A f \in Fields : heap'[CurRaw(c)'].f[f] = Undefined
                  /\ CurRaw(c)' \notin DOMAIN heap
                  /\ hist'[c].inits = hist[c].inits]_vars

C16_Witness ==
    \E c, d \in Ctx :
        /\ hasInitialData /\ ~hist[c].overlap /\ ~hist[d].overlap
        /\ pc[c] = "done" /\ hist[c].inits = 1 /\ hist[c].sets = 1
        /\ pc[d] = "handler" /\ ops[d] = 0 /\ sessionManagers[d] # Undefined
        /\ hist[d].gets = 1 /\ hist[d].inits = 0
        /\ CurRaw(d) = storage[ukey[d]]

(***************************************************************************)
(* C17  Storage failures propagate and are never retried.  When            *)
(* storage.get (at load), storage.set (in the flush) or storage.delete (in *)
(* a reset) rejects, the unit of work ends with that error; the step       *)
(* changes neither storage nor the registered managers and substitutes no  *)
(* value (an eager unit of work whose get failed has no session); the      *)
(* failing operation was issued once for the call; and a unit of work that *)
(* ended with an error issues no storage call any more.                    *)
(***************************************************************************)
C17_StorageFailuresPropagate ==
    /\ [][\A c \in Ctx :
            (hist[c].err = "none" /\ hist'[c].err \in {"get", "set", "delete"}) =>
               /\ pc'[c] = "failed"
               /\ storage' = storage
               /\ sessionManagers' = sessionManagers /\ managers' = managers
               /\ hist'[c].mgrs = hist[c].mgrs /\ hist'[c].inits = hist[c].inits
               /\ hist'[c].err = "get" =>
                    /\ heap' = heap
                    /\ hist'[c].gets = hist[c].gets
                    /\ hist[c].gets <= Cardinality(Accessed(c)) + (IF mode = "eager" THEN 1 ELSE 0)
                    /\ hist'[c].sets = hist[c].sets /\ hist'[c].dels = hist[c].dels
               /\ hist'[c].err = "set" =>
                    /\ hist'[c].sets = hist[c].sets + 1
                    /\ hist'[c].gets = hist[c].gets /\ hist'[c].dels = hist[c].dels
               /\ hist'[c].err = "delete" =>
                    /\ heap' = heap
                    /\ hist'[c].dels = hist[c].dels + 1
                    /\ hist'[c].gets = hist[c].gets /\ hist'[c].sets = hist[c].sets]_vars
    /\ [][\A c \in Ctx :
            pc[c] = "failed" =>
               /\ pc'[c] = "failed"
               /\ hist'[c].gets = hist[c].gets
               /\ hist'[c].sets = hist[c].sets
               /\ hist'[c].dels = hist[c].dels]_vars
    /\ [](\A c \in Ctx :
            (mode = "eager" /\ hist[c].err = "get") =>
               /\ sessionManagers[c] = Undefined
               /\ hist[c].gets = 1 /\ hist[c].inits = 0 /\ ops[c] = 0)

C17_Witness ==
    \E c, d \in Ctx :
        /\ c # d
        /\ pc[c] = "failed" /\ hist[c].err = "set" /\ hist[c].sets = 1
        /\ pc[d] = "done" /\ hist[d].sets = 1

(***************************************************************************)
(* C18  State after a failed flush.  When storage.set rejects in the flush *)
(* of a unit of work, the raw session keeps every field as the mutations   *)
(* left it, the storage entry of the key is the object it was with the     *)
(* content it had, and the manager stays dirty, so that a save called      *)
(* later passes its test of dirty and issues the write again.              *)
(***************************************************************************)
C18_FailedFlushState ==
    [][\A c \in Ctx :
         (hist[c].err = "none" /\ hist'[c].err = "set") =>
            LET m == sessionManagers[c] IN
            /\ heap'[CurRaw(c)] = heap[CurRaw(c)]
            /\ CurRaw(c)' = CurRaw(c)
            /\ storage' = storage
            /\ storage[ukey[c]] # Undefined =>
                  heap'[storage[ukey[c]]] = heap[storage[ukey[c]]]
            /\ managers'[m].dirty
            /\ ShouldSave(m, St(c))']_vars

C18_Witness ==
    \E c \in Ctx :
        /\ hist[c].err = "set" /\ hist[c].incs >= 1
        /\ storage[ukey[c]] # Undefined
        /\ heap[storage[ukey[c]]].f["counter"] # heap[CurRaw(c)].f["counter"]
        /\ managers[sessionManagers[c]].dirty

(***************************************************************************)
(* C19  Initializer failure surfaces.  When nothing is stored for the key  *)
(* and the initializer throws at load, the unit of work ends with that     *)
(* error: the step registers no manager and creates no session; in eager   *)
(* mode no handler operation has run or will run; the unit of work has no  *)
(* session manager; and it issues no storage.set.                          *)
(***************************************************************************)
C19_InitializerFailure ==
    /\ [][\A c \in Ctx :
            (hist[c].err = "none" /\ hist'[c].err = "init") =>
               /\ pc'[c] = "failed"
               /\ sessionManagers' = sessionManagers /\ managers' = managers
               /\ heap' = heap /\ storage' = storage
               /\ mode = "eager" => loadRes[c] = Undefined
               /\ mode = "lazy" =>
                     \E a \in Acc : /\ accPc[c][a] = "get" /\ accPc'[c][a] = "failed"
                                    /\ accRes[c][a] = Undefined
               /\ hist'[c].inits = hist[c].inits + 1
               /\ hist'[c].mgrs = hist[c].mgrs]_vars
    /\ [](\A c \in Ctx :
            hist[c].err = "init" =>
               /\ pc[c] = "failed"
               /\ hist[c].sets = 0
               /\ mode = "eager" => ops[c] = 0
               /\ sessionManagers[c] = Undefined)

(***************************************************************************)
(* C20  Eager scheduling.  In eager mode the step that starts a unit of    *)
(* work issues the storage.get of its load; every started unit of work has *)
(* issued exactly one storage.get, whatever handler logic did or did not   *)
(* do with the session; no asynchronous accessor invocation exists; and    *)
(* whenever handler logic runs or has run, the session manager of the unit *)
(* of work is there, made by one load.                                     *)
(***************************************************************************)
C20_EagerScheduling ==
    /\ [][\A c \in Ctx :
            (mode = "eager" /\ pc[c] = "idle" /\ pc'[c] # "idle") =>
               /\ pc'[c] = "got"
               /\ hist'[c].gets = 1 /\ hist'[c].skeys = {ukey'[c]}
               /\ loadRes'[c] = storage[ukey'[c]]]_vars
    /\ [](\A c \in Ctx :
            (mode = "eager" /\ pc[c] # "idle") =>
               /\ hist[c].gets = 1
               /\ Accessed(c) = {}
               /\ pc[c] \in {"handler", "clear1", "clear2", "saving", "done"} =>
                     /\ sessionManagers[c] # Undefined
                     /\ hist[c].mgrs >= 1
               /\ pc[c] = "got" => ops[c] = 0
               /\ ops[c] > 0 => sessionManagers[c] # Undefined)

C20_Witness ==
    \E c, d \in Ctx :
        /\ mode = "eager"
        /\ pc[c] = "done" /\ ops[c] = 0 /\ hist[c].gets = 1
        /\ pc[d] = "done" /\ ops[d] >= 2 /\ hist[d].gets = 1

(***************************************************************************)
(* C21  Key binding.  The key resolver is called at most once per unit of  *)
(* work, and every storage call of the unit of work is issued for the key  *)
(* it returned: the get of the load reads the entry of that key, the set   *)
(* of the flush writes that entry and no other, the delete of a reset      *)
(* removes that entry and no other.                                        *)
(***************************************************************************)
C21_KeyBinding ==
    /\ [](\A c \in Ctx : /\ hist[c].keys <= 1
                         /\ pc[c] # "idle" => hist[c].skeys \subseteq {ukey[c]}
                         /\ hist[c].gets + hist[c].sets + hist[c].dels > 0
                               => hist[c].keys = 1)
    /\ [][\A c \in Ctx :
            /\ (mode = "eager" /\ pc[c] = "idle" /\ pc'[c] # "idle")
                  => loadRes'[c] = storage[ukey'[c]]
            /\ \A a \in Acc : (accPc[c][a] = "none" /\ accPc'[c][a] = "get")
                  => accRes'[c][a] = storage[ukey[c]]
            /\ (hist'[c].sets = hist[c].sets + 1 /\ hist'[c].err = hist[c].err)
                  => /\ storage'[ukey[c]] # Undefined
                     /\ storage'[ukey[c]] \notin DOMAIN heap
                     /\ \A k \in Keys \ {ukey[c]} : storage'[k] = storage[k]
            /\ (hist'[c].dels = hist[c].dels + 1 /\ hist'[c].err = hist[c].err)
                  => storage' = [storage EXCEPT ![ukey[c]] = Undefined]]_vars

C21_Witness ==
    \E c, d \in Ctx :
        /\ ukey[c] = "123" /\ ukey[d] = "456"
        /\ pc[c] = "done" /\ hist[c].sets = 1 /\ hist[c].skeys = {"123"}
        /\ pc[d] = "done" /\ hist[d].dels = 1 /\ hist[d].skeys = {"456"}
        /\ storage["123"] # Undefined /\ storage["456"] = Undefined

\* the session of c was materialized from the entry the earlier unit of work
\* stored, and c did nothing but session.counter++, at least once, through
\* its one session, and its flush hook has returned
IncrementedEarlier(c) ==
    /\ pc[c] = "done" /\ ukey[c] = "123"
    /\ hist[c].mgrs = 1 /\ hist[c].repls = 0
    /\ CurRaw(c) = Earlier.stored
    /\ hist[c].incs >= 1 /\ ops[c] = hist[c].incs

(***************************************************************************)
(* C22  Last write wins.  Two units of work for one key that both loaded   *)
(* the entry an earlier unit of work stored (so both loaded before either  *)
(* flushed), and both incremented the counter, have both written at their  *)
(* flush; and the counter stored when both have completed is the one of a  *)
(* single unit of work (the loaded counter plus its own increments): the   *)
(* increments of the other are lost.                                       *)
(***************************************************************************)
C22_LastWriteWins ==
    \A c, d \in Ctx :
        (c # d /\ IncrementedEarlier(c) /\ IncrementedEarlier(d)) =>
            /\ hist[c].sets = 1 /\ hist[d].sets = 1
            /\ storage["123"] # Undefined
            /\ heap[storage["123"]].f["counter"]
                  \in {Prim(1 + hist[c].incs), Prim(1 + hist[d].incs)}

(***************************************************************************)
(* Replacement of the whole session value (eager mode).                    *)
(***************************************************************************)
\* C23: in eager mode, when the handler assigned a new value to the session
\* field (a fresh mapping, the existing wrapper, or the raw container that
\* already has a wrapper), made no further mutation, and the unit of work
\* completes normally, the storage entry of the key equals the new value at
\* the end of the unit of work
C23_ReplacementPersisted ==
    [][\A c \in Ctx :
         (/\ Finishes(c) /\ mode = "eager"
          /\ hist[c].repls >= 1 /\ hist[c].last = "replace"
          /\ hist[c].err = "none" /\ ~hist[c].overlap)
             => StoredEquals(c)']_vars

(***************************************************************************)
(* Which manager a tracked mutation marks.                                 *)
(***************************************************************************)
\* C24: every write or delete through a wrapper that the handler got from
\* the session accessor of its unit of work, at any depth, marks dirty the
\* manager that the flush hook consults for that unit of work, also when
\* the raw container was wrapped by an earlier manager (the storage handed
\* out the same object again, or the session was replaced by a wrapped
\* value).  A lazy unit of work that built two managers is left aside.
C24_MutationsMarkOwner ==
    [][\A c \in Ctx :
         (/\ MayOperate(c)
          /\ mode = "lazy" => hist[c].mgrs <= 1
          /\ hist'[c].muts = hist[c].muts + 1)
             => managers'[sessionManagers[c]].dirty]_vars

(***************************************************************************)
(* The dirty flag of a session manager.                                    *)
(***************************************************************************)
\* the step is a write or a delete that the handler of c makes through a
\* wrapper it reached from the session value s
MutatesThrough(c, s) ==
    /\ hist'[c].muts = hist[c].muts + 1
    /\ Handles(c) = {s}

\* the step completes a flush of manager m, or is the reset of m by $clear
FlushedOrReset(m) ==
    \E c \in Ctx :
        \/ pc[c] = "saving" /\ pc'[c] = "done" /\ sessionManagers[c] = m
        \/ pc[c] = "clear1" /\ pc'[c] # "clear1" /\ clearM[c] = m

\* C25: isDirty() of a session manager is true exactly when a tracked write
\* or delete on its session has occurred since the later of its creation,
\* its last successful flush and its last reset: a manager is created clean;
\* a write or delete through its session makes it dirty; a completed flush
\* and a reset make it clean; no other step changes the flag
C25_DirtyFlagMeaning ==
    [][\A m \in DOMAIN managers' :
         IF m \notin DOMAIN managers THEN ~managers'[m].dirty
         ELSE IF \E c \in Ctx : MutatesThrough(c, managers[m].session)
              THEN managers'[m].dirty
         ELSE IF FlushedOrReset(m) THEN ~managers'[m].dirty
         ELSE managers'[m].dirty = managers[m].dirty]_vars

(***************************************************************************)
(* The wrappers that exist.                                                *)
(***************************************************************************)
\* C26: after any sequence of reads, writes and deletes through wrappers,
\* a write that stores a wrapper into a field included, no wrapper wraps
\* another wrapper, at most one wrapper exists for a raw container, and
\* wrapping again a raw container that has a wrapper returns that wrapper
\* and creates nothing
C26_OneWrapperPerContainer ==
    /\ \A p \in DOMAIN proxyObj : proxyObj[p].target.t # "proxy"
    /\ \A p, q \in DOMAIN proxyObj :
          \A c \in Ctx : RawOf(p, St(c)) = RawOf(q, St(c)) => p = q
    /\ \A r \in DOMAIN proxyCache : \A c \in Ctx : \A m \in DOMAIN managers :
          createProxy(r, m, St(c)) = [res |-> proxyCache[r], st |-> St(c)]

C28_ImmediateSave ==
    [][\A c \in Ctx :
         (mode = "eager" /\ hist'[c].repls = hist[c].repls + 1) =>
            /\ hist'[c].sets = hist[c].sets + 1
            /\ ukey[c] \in hist'[c].skeys
            /\ StoredEquals(c)']_vars

WriteAt(c, h, t) ==
    LET n == Nav(h, t.path, St(c)) IN
    /\ IsObject(n.res)
    /\ LET old == JsGet(n.res, t.field, n.st) IN
       /\ old.res.t = "prim"
       /\ SetSt(JsSet(n.res, t.field, Prim(old.res.v + 1), old.st))
    /\ hist'[c].muts = hist[c].muts + 1

\* h.alias = h.nested.items through the wrapper h
StoreWrapperAt(c, h) ==
    LET n == Nav(h, <<"nested", "items">>, St(c)) IN
    /\ IsObject(n.res)
    /\ SetSt(JsSet(h, "alias", n.res, n.st))
    /\ hist'[c].muts = hist[c].muts + 1

\* the wrappers that exist for the raw container r
WrappersOf(r, st) == {p \in DOMAIN st.proxyObj : RawOf(p, st) = r}

\* what reading field through the wrapper p gives
ReadOf(p, field, st) ==
    LET g == JsGet(p, field, st) IN
    IF IsObject(g.res) THEN [obj |-> RawOf(g.res, g.st), wrapped |-> g.res.t = "proxy"]
    ELSE [prim |-> g.res]

\* C30: within a unit of work, right after a write of v to a field through
\* a wrapper, a read of the field through any wrapper of the same raw
\* container gives v, or a wrapper of the container v stands for when v is
\* a container; right after a delete of the field the read gives absent
C30_ProgramOrder ==
    [][\A c \in Ctx : MayOperate(c) => \A h \in Handles(c) :
         /\ \A t \in WriteTargets : WriteAt(c, h, t) =>
               \A n \in {Nav(h, t.path, St(c))} :
               \A r \in {RawOf(n.res, n.st)} :
               \A v \in {JsGet(r, t.field, n.st).res.v + 1} :
                  (\A p \in WrappersOf(r, St(c)) :
                      ReadOf(p, t.field, St(c)) = [prim |-> Prim(v)])'
         /\ \A t \in DeleteTargets : DeleteAt(c, h, t) =>
               \A n \in {Nav(h, t.path, St(c))} :
               \A r \in {RawOf(n.res, n.st)} :
                  (\A p \in WrappersOf(r, St(c)) :
                      ReadOf(p, t.field, St(c)) = [prim |-> Undefined])'
         /\ StoreWrapperAt(c, h) =>
               \A r \in {RawOf(h, St(c))} :
               \A n \in {Nav(h, <<"nested", "items">>, St(c))} :
               \A v \in {RawOf(n.res, n.st)} :
                  (\A p \in WrappersOf(r, St(c)) :
                      ReadOf(p, "alias", St(c)) = [obj |-> v, wrapped |-> TRUE])']_vars

\* the element of the array of the session of c was written, the array was
\* stored under a second field, and two wrappers exist for it
C30_Witness ==
    \E c \in Ctx : \E p, q \in DOMAIN proxyObj :
        /\ pc[c] = "handler" /\ hist[c].muts >= 2
        /\ p # q /\ RawOf(p, St(c)) = RawOf(q, St(c))
        /\ heap[RawOf(p, St(c))].kind = "arr"
        /\ heap[RawOf(p, St(c))].f["0"] = Prim(1)

(***************************************************************************)
(* A handler that fails.                                                   *)
(***************************************************************************)
\* C31: when the handler logic of a unit of work throws, the chain of the
\* unit of work rejects (the error reaches the dispatcher), the step
\* changes neither the storage nor any raw container nor the dirty flags
\* (what the handler had written stays written, nothing is rolled back),
\* and the unit of work issues no storage call afterwards: its flush hook
\* never issues a storage.set
C31_NoFlushOnHandlerFailure ==
    /\ [][\A c \in Ctx :
            (hist[c].err = "none" /\ hist'[c].err = "handler") =>
               /\ pc'[c] = "failed"
               /\ storage' = storage
               /\ heap' = heap /\ managers' = managers
               /\ hist'[c].sets = hist[c].sets]_vars
    /\ [][\A c \in Ctx :
            hist[c].err = "handler" =>
               /\ pc'[c] = "failed"
               /\ hist'[c] = hist[c]
               /\ ~StepOf(c)]_vars

C31_Witness ==
    \E c \in Ctx :
        /\ pc[c] = "failed" /\ hist[c].err = "handler"
        /\ hist[c].incs >= 1 /\ hist[c].sets = 0
        /\ managers[sessionManagers[c]].dirty
        /\ heap[CurRaw(c)].f["counter"] = Prim(1)
        /\ storage[ukey[c]] = Undefined

(***************************************************************************)
(* A mutation made while a flush is in flight.                             *)
(***************************************************************************)
\* the entry of the key of c is the mapping that the save of c wrote, and it
\* is still as it was written: the storage has handed it to no session, so
\* nothing could write to it
WrittenUntouched(c) ==
    /\ storage[ukey[c]] # Undefined
    /\ storage[ukey[c]].c = c
    /\ \A m \in DOMAIN managers :
          RawOf(managers[m].session, St(c)) # storage[ukey[c]]

\* C32: for a session with no reset, when a save completes and leaves
\* isDirty() false, the mapping last written to the storage for the key
\* equals the raw top-level mapping of the session; so a tracked write
\* applied while the storage.set of the save was pending leaves isDirty()
\* true when that save completes
C32_NoLostMutation ==
    [][\A c \in Ctx :
         (/\ pc[c] = "saving" /\ pc'[c] = "done"
          /\ hist[c].resets = 0
          /\ WrittenUntouched(c))
             => (~managers'[sessionManagers[c]].dirty => StoredEquals(c)')]_vars

(***************************************************************************)
(* A reset that fails.                                                     *)
(***************************************************************************)
\* the eager unit of work c ran alone on its key, its session is the one
\* mapping the storage returned to it, and before its reset it incremented
\* the counter and issued no storage.set: when it called $clear the entry
\* of its key was the mapping it had loaded and its manager was dirty
ResetCalledOnLoadedDirty(c) ==
    /\ mode = "eager" /\ ~hist[c].overlap
    /\ loadRes[c] # Undefined
    /\ hist[c].repls = 0 /\ hist[c].resets = 0 /\ hist[c].sets = 0
    /\ hist[c].incs >= 1

\* C33: a reset that fails, because storage.delete rejects or because the
\* initializer throws, leaves the storage entry, the fields of the session
\* and the dirty flag as they were before the call: the failing step of a
\* rejected delete changes none of them, and after either failure the entry
\* is still the mapping that was there and the manager is still dirty
C33_ResetAllOrNothing ==
    /\ [][\A c \in Ctx :
            (hist[c].err = "none" /\ hist'[c].err \in {"delete", "clearinit"}) =>
               /\ heap' = heap
               /\ hist'[c].err = "delete" =>
                     storage' = storage /\ managers' = managers]_vars
    /\ [](\A c \in Ctx :
          (hist[c].err \in {"delete", "clearinit"} /\ ResetCalledOnLoadedDirty(c)) =>
             /\ storage[ukey[c]] = loadRes[c]
             /\ managers[sessionManagers[c]].dirty)

(***************************************************************************)
(* Values that are no containers.                                          *)
(***************************************************************************)
\* the wrappers and both caches of st are those of the current state
SameWrappers(st) ==
    /\ st.proxyObj = proxyObj
    /\ st.proxyCache = proxyCache
    /\ st.targetCache = targetCache

\* C34: in every state, for every wrapper that exists and every field of
\* its raw container that holds no container (a number, or nothing), a
\* read of the field through the wrapper returns that value itself and
\* leaves the wrappers and both caches as they were; the same when a
\* field is made to hold null; and
\* createProxy applied to a number, undefined or null returns it and
\* changes nothing
C34_PrimitivesPassThrough ==
    \A s \in {St(1)} :
        /\ \A v \in Leaves : \A m \in DOMAIN managers :
              \A r \in {createProxy(v, m, s)} : r.res = v /\ SameWrappers(r.st)
        /\ \A p \in DOMAIN proxyObj : \A r \in {RawOf(p, s)} :
              /\ \A f \in Fields : \A v \in {heap[r].f[f]} :
                    ~IsContainer(v) =>
                       \A g \in {JsGet(p, f, s)} :
                          g.res = v /\ SameWrappers(g.st)
              /\ \A g \in {JsGet(p, "value", JsSet(r, "value", Null, s))} :
                    g.res = Null /\ SameWrappers(g.st)

\* the handler read and wrote the counter through the session wrapper, and
\* the session wrapper is the only wrapper and the only cache entry there is
C34_Witness ==
    \E c \in Ctx :
        /\ pc[c] = "handler" /\ hist[c].incs >= 1
        /\ heap[CurRaw(c)].f["counter"] = Prim(1)
        /\ DOMAIN proxyObj = {CurSession(c)}
        /\ DOMAIN proxyCache = {CurRaw(c)}
        /\ DOMAIN targetCache = {CurSession(c)}

====
